---- MODULE Spec2Model ----
(***************************************************************************)
(* Model of tools/convert_dlib_nets_to_caffe/main.cpp: the doc_handler     *)
(* that builds the layer list from XML events, parse_dlib_xml, the         *)
(* resolver find_layer_caffe_name, the two emission loops of               *)
(* convert_dlib_xml_to_cafffe_python_code and main's per-file loop.        *)
(*                                                                         *)
(* Positions in the layer list are the std::vector's own positions,        *)
(* counted from 1 here (position 1 is the first record of the document,    *)
(* position Len(layers) is layers.back()).  The emission loops walk the    *)
(* list with reverse iterators: a reverse iterator "at position p"         *)
(* dereferences to layers[p]; ++i moves to p-1, and i-1 / i-- move to p+1  *)
(* (toward layers.back(), the input layer).                                *)
(***************************************************************************)
EXTENDS Integers, Sequences, FiniteSets, TLC

VARIABLES
    pc,         \* control position of main / convert / the XML parser
    argc,       \* main's argc (number of file arguments + 1)
    argi,       \* main's loop variable i
    dh,         \* the doc_handler object of parse_dlib_xml
    doc,        \* the layer elements of the document read so far
    layers,     \* convert's local `layers`
    rit,        \* position of the emission loops' reverse iterator
    fout,       \* the output file stream of the current conversion
    disk,       \* what is on disk for each file converted so far
    cout,       \* standard output
    status,     \* the process's exit status, -1 while it runs
    err,        \* the exception in flight, "" when none
    calls       \* the resolver calls made by the current loop iteration

vars == <<pc, argc, argi, dh, doc, layers, rit, fout, disk, cout, status, err, calls>>

----------------------------------------------------------------------------
(* Bounds of the model.                                                    *)

\* most layer elements in a document delivered event by event
MaxParseElems == 4
\* most layer elements in a document converted by main
MaxElems == 3
\* most file arguments given to main
MaxFiles == 3
\* most records of a layer list handed directly to the resolver
MaxList == 4
\* most rows of a parameters tensor handed directly to the relayout
MaxRows == 5
\* most columns of a parameters tensor handed directly to the relayout
MaxCols == 2

\* ids that tag and skip markers (and add_prev's tag attribute) carry
TagIds == {1, 2}

----------------------------------------------------------------------------
(* Small helpers.                                                          *)

NoAtts == [k \in {} |-> 0]

Last(s) == s[Len(s)]

SetMax(S) == CHOOSE x \in S : \A y \in S : y <= x

SetMin(S) == CHOOSE x \in S : \A y \in S : x <= y

\* a dlib matrix as the sequence of its rows
NR(m) == Len(m)
NC(m) == IF Len(m) = 0 THEN 0 ELSE Len(m[1])
Size(m) == NR(m) * NC(m)
NoMatrix == <<>>

\* the text of a parameters tensor: nr lines of nc numbers each
MatText(nr, nc) == [nr |-> nr, toks |-> [j \in 1..(nr * nc) |-> j]]

\* operator>> of dlib::matrix on that text: one row per line
ReadMatrix(t) ==
    LET nc == IF t.nr = 0 THEN 0 ELSE Len(t.toks) \div t.nr
    IN  [r \in 1..t.nr |-> SubSeq(t.toks, (r - 1) * nc + 1, r * nc)]

----------------------------------------------------------------------------
(* struct layer.                                                           *)

comp_tags_with_params ==
    {"fc", "fc_no_bias", "con", "affine_con", "affine_fc", "affine", "prelu"}

\* layer(): a value-initialised record
layer ==
    [type |-> "", idx |-> 0, detail_name |-> "", attributes |-> NoAtts,
     params |-> NoMatrix, tag_id |-> -1, skip_id |-> -1]

HasAttribute(l, key) == key \in DOMAIN l.attributes

AttributeError(key) == "Layer doesn't have the requested attribute '" \o key \o "'."

\* layer::attribute, where the key is present
attribute(l, key) == l.attributes[key]

caffe_layer_name(l) ==
    IF l.type = "input" THEN "data" ELSE l.detail_name \o ToString(l.idx)

----------------------------------------------------------------------------
(* find_layer_caffe_name.  The iterator is a reverse iterator at position  *)
(* p of the list ls; the result is the name returned with the position it  *)
(* was read from, or the error thrown, or undef when the iterator was      *)
(* moved past layers.back() and dereferenced (the list read out of range). *)

SkipError == "Network definition is bad, a layer wanted to skip back to a non-existing layer."

Found(ls, q) == [name |-> caffe_layer_name(ls[q]), pos |-> q, err |-> "", undef |-> FALSE]
Thrown(msg) == [name |-> "", pos |-> 0, err |-> msg, undef |-> FALSE]
OutOfRange == [name |-> "", pos |-> 0, err |-> "", undef |-> TRUE]

\* the while(true) loop with the input check made before the tag check
RECURSIVE ScanForTag_InputFirst(_, _, _)
ScanForTag_InputFirst(ls, q, tag_id) ==
    IF q > Len(ls) THEN OutOfRange
    ELSE IF ls[q].type = "input" THEN Thrown(SkipError)
    ELSE IF ls[q].tag_id = tag_id THEN Found(ls, q)
    ELSE ScanForTag_InputFirst(ls, q + 1, tag_id)

\* the while(true) loop without the stop at an input layer
RECURSIVE ScanForTag_NoInputStop(_, _, _)
ScanForTag_NoInputStop(ls, q, tag_id) ==
    IF q > Len(ls) THEN OutOfRange
    ELSE IF ls[q].tag_id = tag_id THEN Found(ls, q)
    ELSE ScanForTag_NoInputStop(ls, q + 1, tag_id)

\* the while(true) loop, q being the position the iterator has after i--
RECURSIVE ScanForTag(_, _, _)
ScanForTag(ls, q, tag_id) ==
    IF q > Len(ls) THEN OutOfRange
    ELSE IF ls[q].tag_id = tag_id THEN Found(ls, q)
    ELSE IF ls[q].type = "input" THEN Thrown(SkipError)
    ELSE ScanForTag(ls, q + 1, tag_id)

\* find_layer_caffe_name taking i+1 of the reverse iterator for the untagged case
find_layer_caffe_name_Forward(ls, p, tag_id) ==
    IF tag_id = -1
    THEN IF p - 1 < 1 THEN OutOfRange ELSE Found(ls, p - 1)
    ELSE ScanForTag(ls, p + 1, tag_id)

find_layer_caffe_name(ls, p, tag_id) ==
    IF tag_id = -1
    THEN IF p + 1 > Len(ls) THEN OutOfRange ELSE Found(ls, p + 1)
    ELSE ScanForTag(ls, p + 1, tag_id)

find_input_layer_caffe_name(ls, p) == find_layer_caffe_name(ls, p, ls[p].skip_id)

----------------------------------------------------------------------------
(* The graph definition: the text convert writes before the layers, and    *)
(* one declaration per translated layer.  A line of text is a string; a    *)
(* declaration is recorded when its closing ");" is written, with the      *)
(* position of the record it was made from.                                *)

NoKnownTransformation(detail_name) ==
    "No known transformation from dlib's " \o detail_name \o " layer to caffe."

PoolingError ==
    "dlib and caffe implement pooling with non-zero padding differently, so you can't convert a network with such pooling layers."

BatchNormError ==
    "Conversion from dlib's batch norm layers to caffe's isn't supported.  Instead, you should put your network into 'test mode' by switching batch norm layers to affine layers."

\* the output stream before ofstream fout(out_filename) and after it is closed
NoFile == [open |-> FALSE, head |-> <<>>, decls |-> <<>>, tail |-> <<>>, weights |-> <<>>]

\* lines 117-123
Preamble ==
    <<"import caffe ", "from caffe import layers as L, params as P",
      "import numpy as np", "# Input tensor dimensions", "batch_size = 1;">>

DefaultSizeWarning ==
    " #WARNING, the source dlib network didn't commit to a specific input size, so we put 28 here as a default."

\* lines 148-152, the non-blank lines
NetspecOpening ==
    <<"def make_netspec():",
      "    # For reference, the only \"documentation\" about caffe layer parameters seems to be this page:",
      "    # https://github.com/BVLC/caffe/blob/master/src/caffe/proto/caffe.proto",
      "    n = caffe.NetSpec(); ",
      "    n.data,n.label = L.MemoryData(batch_size=batch_size, channels=input_k, height=input_nr, width=input_nc, ntop=2)">>

\* lines 273-292, the non-blank lines
NetspecClosing ==
    <<"    return n.to_proto();",
      "def save_as_caffe_model(def_file, weights_file):",
      "    with open(def_file, 'w') as f: f.write(str(make_netspec()));",
      "    net = caffe.Net(def_file, caffe.TEST);",
      "    set_network_weights(net);",
      "    net.save(weights_file);",
      "def set_network_weights(net):",
      "    # populate network parameters">>

\* the first key of keys that the record lacks, "" when it has them all
FirstMissing(l, keys) ==
    LET S == {j \in 1..Len(keys) : ~HasAttribute(l, keys[j])}
    IN  IF S = {} THEN "" ELSE keys[SetMin(S)]

\* ", key=" << i->attribute(key) for each key in turn
Args(l, keys) == [j \in 1..Len(keys) |-> keys[j][1] \o "=" \o ToString(attribute(l, keys[j][2]))]

\* InputDims taking any other input layer for a single-channel image
InputDims_AcceptAny(ls) ==
    LET l == Last(ls) IN
    IF l.detail_name = "input_rgb_image"
    THEN [err |-> "", lines |-> <<"input_nr = 28;" \o DefaultSizeWarning,
                                  "input_nc = 28;" \o DefaultSizeWarning, "input_k = 3;">>]
    ELSE IF l.detail_name = "input_rgb_image_sized"
    THEN IF ~HasAttribute(l, "nr") THEN [err |-> AttributeError("nr"), lines |-> <<>>]
         ELSE IF ~HasAttribute(l, "nc")
         THEN [err |-> AttributeError("nc"),
               lines |-> <<"input_nr = " \o ToString(attribute(l, "nr")) \o ";">>]
         ELSE [err |-> "",
               lines |-> <<"input_nr = " \o ToString(attribute(l, "nr")) \o ";",
                           "input_nc = " \o ToString(attribute(l, "nc")) \o ";",
                           "input_k = 3;">>]
    ELSE [err |-> "", lines |-> <<"input_nr = 28;" \o DefaultSizeWarning,
                                  "input_nc = 28;" \o DefaultSizeWarning, "input_k = 1;">>]

\* lines 124-146: the input dimensions, from layers.back()
InputDims(ls) ==
    LET l == Last(ls) IN
    IF l.detail_name = "input_rgb_image"
    THEN [err |-> "", lines |-> <<"input_nr = 28;" \o DefaultSizeWarning,
                                  "input_nc = 28;" \o DefaultSizeWarning, "input_k = 3;">>]
    ELSE IF l.detail_name = "input_rgb_image_sized"
    THEN IF ~HasAttribute(l, "nr") THEN [err |-> AttributeError("nr"), lines |-> <<>>]
         ELSE IF ~HasAttribute(l, "nc")
         THEN [err |-> AttributeError("nc"),
               lines |-> <<"input_nr = " \o ToString(attribute(l, "nr")) \o ";">>]
         ELSE [err |-> "",
               lines |-> <<"input_nr = " \o ToString(attribute(l, "nr")) \o ";",
                           "input_nc = " \o ToString(attribute(l, "nc")) \o ";",
                           "input_k = 3;">>]
    ELSE IF l.detail_name = "input"
    THEN [err |-> "", lines |-> <<"input_nr = 28;" \o DefaultSizeWarning,
                                  "input_nc = 28;" \o DefaultSizeWarning, "input_k = 1;">>]
    ELSE [err |-> NoKnownTransformation(l.detail_name), lines |-> <<>>]

Decl(ls, p, kind, bottoms, args) ==
    [pos |-> p, name |-> caffe_layer_name(ls[p]), kind |-> kind,
     bottoms |-> bottoms, args |-> args]

Call(p, tag_id, res) == [pos |-> p, tag |-> tag_id, res |-> res]

\* the outcome of one iteration of the loop of lines 154-272
Emitted(d, cs) == [err |-> "", undef |-> FALSE, decl |-> <<d>>, calls |-> cs]
Failed(msg, cs) == [err |-> msg, undef |-> FALSE, decl |-> <<>>, calls |-> cs]
Undefined(cs) == [err |-> "", undef |-> TRUE, decl |-> <<>>, calls |-> cs]
Skipped == [err |-> "", undef |-> FALSE, decl |-> <<>>, calls |-> <<>>]

\* a layer with one input: the resolver call, the attributes read in the
\* order given, then the declaration
OneInput(ls, p, kind, keys, flags) ==
    LET in == find_input_layer_caffe_name(ls, p)
        cs == <<Call(p, ls[p].skip_id, in)>>
        missing == FirstMissing(ls[p], [j \in 1..Len(keys) |-> keys[j][2]])
    IN  IF in.undef THEN Undefined(cs)
        ELSE IF in.err # "" THEN Failed(in.err, cs)
        ELSE IF missing # "" THEN Failed(AttributeError(missing), cs)
        ELSE Emitted(Decl(ls, p, kind, <<in.name>>, flags \o Args(ls[p], keys)), cs)

\* lines 178-202 and 203-227
Pooling(ls, p, pool) ==
    LET l == ls[p]
        in == find_input_layer_caffe_name(ls, p)
        cs == <<Call(p, l.skip_id, in)>>
        kernel == IF HasAttribute(l, "nc") /\ attribute(l, "nc") = 0
                  THEN <<>> ELSE <<"nc", "nr">>
        first == FirstMissing(l, <<"nc">> \o kernel \o <<"padding_x">>)
        rest == <<"stride_x", "stride_y", "padding_x", "padding_y">>
    IN  IF in.undef THEN Undefined(cs)
        ELSE IF in.err # "" THEN Failed(in.err, cs)
        ELSE IF first # "" THEN Failed(AttributeError(first), cs)
        ELSE IF attribute(l, "padding_x") # 0 THEN Failed(PoolingError, cs)
        ELSE IF ~HasAttribute(l, "padding_y") THEN Failed(AttributeError("padding_y"), cs)
        ELSE IF attribute(l, "padding_y") # 0 THEN Failed(PoolingError, cs)
        ELSE IF FirstMissing(l, rest) # "" THEN Failed(AttributeError(FirstMissing(l, rest)), cs)
        ELSE Emitted(Decl(ls, p, "Pooling", <<in.name>>,
                 <<"pool=P.Pooling." \o pool>>
                 \o (IF attribute(l, "nc") = 0 THEN <<"global_pooling=True">>
                     ELSE Args(l, <<<<"kernel_w", "nc">>, <<"kernel_h", "nr">>>>))
                 \o Args(l, <<<<"stride_w", "stride_x">>, <<"stride_h", "stride_y">>,
                              <<"pad_w", "padding_x">>, <<"pad_h", "padding_y">>>>)), cs)

\* lines 261-267
AddPrev(ls, p) ==
    LET l == ls[p]
        in == find_input_layer_caffe_name(ls, p)
        c1 == <<Call(p, l.skip_id, in)>>
    IN  IF in.undef THEN Undefined(c1)
        ELSE IF in.err # "" THEN Failed(in.err, c1)
        ELSE IF ~HasAttribute(l, "tag") THEN Failed(AttributeError("tag"), c1)
        ELSE
            LET in2 == find_layer_caffe_name(ls, p, attribute(l, "tag"))
                c2 == Append(c1, Call(p, attribute(l, "tag"), in2))
            IN  IF in2.undef THEN Undefined(c2)
                ELSE IF in2.err # "" THEN Failed(in2.err, c2)
                ELSE Emitted(Decl(ls, p, "Eltwise", <<in.name, in2.name>>,
                                  <<"operation=P.Eltwise.SUM">>), c2)

\* the dispatch with its final else branch emitting nothing
Declare_DropUnknown(ls, p) ==
    LET l == ls[p] IN
    IF l.type = "loss" \/ l.type = "input" THEN Skipped
    ELSE IF l.detail_name = "con" THEN
        OneInput(ls, p, "Convolution",
                 <<<<"num_output", "num_filters">>, <<"kernel_w", "nc">>, <<"kernel_h", "nr">>,
                   <<"stride_w", "stride_x">>, <<"stride_h", "stride_y">>,
                   <<"pad_w", "padding_x">>, <<"pad_h", "padding_y">>>>, <<>>)
    ELSE IF l.detail_name = "relu" THEN OneInput(ls, p, "ReLU", <<>>, <<>>)
    ELSE IF l.detail_name = "max_pool" THEN Pooling(ls, p, "MAX")
    ELSE IF l.detail_name = "avg_pool" THEN Pooling(ls, p, "AVE")
    ELSE IF l.detail_name = "fc" THEN
        LET r == OneInput(ls, p, "InnerProduct", <<<<"num_output", "num_outputs">>>>, <<>>)
        IN  IF r.decl = <<>> THEN r
            ELSE [r EXCEPT !.decl[1].args = @ \o <<"bias_term=True">>]
    ELSE IF l.detail_name = "fc_no_bias" THEN
        LET r == OneInput(ls, p, "InnerProduct", <<<<"num_output", "num_outputs">>>>, <<>>)
        IN  IF r.decl = <<>> THEN r
            ELSE [r EXCEPT !.decl[1].args = @ \o <<"bias_term=False">>]
    ELSE IF l.detail_name = "bn_con" \/ l.detail_name = "bn_fc" THEN Failed(BatchNormError, <<>>)
    ELSE IF l.detail_name = "affine_con" THEN
        OneInput(ls, p, "Scale", <<>>, <<"axis=1", "bias_term=True">>)
    ELSE IF l.detail_name = "affine_fc" THEN
        OneInput(ls, p, "Scale", <<>>, <<"axis=3", "bias_term=True">>)
    ELSE IF l.detail_name = "add_prev" THEN AddPrev(ls, p)
    ELSE Skipped

\* the body of the loop of lines 154-272 for the record at position p
Declare(ls, p) ==
    LET l == ls[p] IN
    IF l.type = "loss" \/ l.type = "input" THEN Skipped
    ELSE IF l.detail_name = "con" THEN
        OneInput(ls, p, "Convolution",
                 <<<<"num_output", "num_filters">>, <<"kernel_w", "nc">>, <<"kernel_h", "nr">>,
                   <<"stride_w", "stride_x">>, <<"stride_h", "stride_y">>,
                   <<"pad_w", "padding_x">>, <<"pad_h", "padding_y">>>>, <<>>)
    ELSE IF l.detail_name = "relu" THEN OneInput(ls, p, "ReLU", <<>>, <<>>)
    ELSE IF l.detail_name = "max_pool" THEN Pooling(ls, p, "MAX")
    ELSE IF l.detail_name = "avg_pool" THEN Pooling(ls, p, "AVE")
    ELSE IF l.detail_name = "fc" THEN
        LET r == OneInput(ls, p, "InnerProduct", <<<<"num_output", "num_outputs">>>>, <<>>)
        IN  IF r.decl = <<>> THEN r
            ELSE [r EXCEPT !.decl[1].args = @ \o <<"bias_term=True">>]
    ELSE IF l.detail_name = "fc_no_bias" THEN
        LET r == OneInput(ls, p, "InnerProduct", <<<<"num_output", "num_outputs">>>>, <<>>)
        IN  IF r.decl = <<>> THEN r
            ELSE [r EXCEPT !.decl[1].args = @ \o <<"bias_term=False">>]
    ELSE IF l.detail_name = "bn_con" \/ l.detail_name = "bn_fc" THEN Failed(BatchNormError, <<>>)
    ELSE IF l.detail_name = "affine_con" THEN
        OneInput(ls, p, "Scale", <<>>, <<"axis=1", "bias_term=True">>)
    ELSE IF l.detail_name = "affine_fc" THEN
        OneInput(ls, p, "Scale", <<>>, <<"axis=3", "bias_term=True">>)
    ELSE IF l.detail_name = "add_prev" THEN AddPrev(ls, p)
    ELSE Failed(NoKnownTransformation(l.detail_name), <<>>)

----------------------------------------------------------------------------
(* The weights: dlib's range, rowm and trans on a matrix, and the tensors  *)
(* each parameter-bearing layer writes.  rowm with a row index outside the *)
(* matrix is undefined behaviour: the rows read out of range are given as  *)
(* rows of zeros and the result is marked undef.                           *)

range(b, e) ==
    IF b <= e THEN [j \in 1..(e - b + 1) |-> b + j - 1]
    ELSE [j \in 1..(b - e + 1) |-> b - j + 1]

ValidRows(m, rows) == \A j \in 1..Len(rows) : rows[j] >= 0 /\ rows[j] < NR(m)

rowm(m, rows) ==
    [j \in 1..Len(rows) |->
        IF rows[j] >= 0 /\ rows[j] < NR(m) THEN m[rows[j] + 1]
        ELSE [c \in 1..NC(m) |-> 0]]

trans(m) == [c \in 1..NC(m) |-> [r \in 1..NR(m) |-> m[r][c]]]

\* print_as_np_array: the elements of m in row-major order
print_as_np_array(m) ==
    [k \in 1..Size(m) |-> m[((k - 1) \div NC(m)) + 1][((k - 1) % NC(m)) + 1]]

Tensor(ls, p, slot, m) ==
    [pos |-> p, name |-> caffe_layer_name(ls[p]), slot |-> slot, data |-> print_as_np_array(m)]

Written(ts) == [undef |-> FALSE, tensors |-> ts]
ReadOutOfRange(ts) == [undef |-> TRUE, tensors |-> ts]

\* the affine branch with the second half taken up to the last row
Relayout_BetaToEnd(ls, p) ==
    LET l == ls[p]
        m == l.params
    IN
    IF l.type = "loss" \/ l.type = "input" THEN Written(<<>>)
    ELSE IF l.detail_name = "con" THEN
        LET num_filters == attribute(l, "num_filters")
            wr == range(0, Size(m) - num_filters - 1)
            br == range(Size(m) - num_filters, Size(m) - 1)
            ts == <<Tensor(ls, p, 0, trans(rowm(m, wr))), Tensor(ls, p, 1, trans(rowm(m, br)))>>
        IN  IF ValidRows(m, wr) /\ ValidRows(m, br) THEN Written(ts) ELSE ReadOutOfRange(ts)
    ELSE IF l.detail_name = "fc" THEN
        LET wr == range(0, NR(m) - 2)
            br == <<NR(m) - 1>>
            ts == <<Tensor(ls, p, 0, trans(rowm(m, wr))), Tensor(ls, p, 1, rowm(m, br))>>
        IN  IF ValidRows(m, wr) /\ ValidRows(m, br) THEN Written(ts) ELSE ReadOutOfRange(ts)
    ELSE IF l.detail_name = "fc_no_bias" THEN
        Written(<<Tensor(ls, p, 0, trans(m))>>)
    ELSE IF l.detail_name = "affine_con" \/ l.detail_name = "affine_fc" THEN
        LET dims == Size(m) \div 2
            gr == range(0, dims - 1)
            br == range(dims, Size(m) - 1)
            ts == <<Tensor(ls, p, 0, trans(rowm(m, gr))), Tensor(ls, p, 1, trans(rowm(m, br)))>>
        IN  IF ValidRows(m, gr) /\ ValidRows(m, br) THEN Written(ts) ELSE ReadOutOfRange(ts)
    ELSE Written(<<>>)

\* the body of the loop of lines 294-357 for the record at position p
Relayout(ls, p) ==
    LET l == ls[p]
        m == l.params
    IN
    IF l.type = "loss" \/ l.type = "input" THEN Written(<<>>)
    ELSE IF l.detail_name = "con" THEN
        LET num_filters == attribute(l, "num_filters")
            wr == range(0, Size(m) - num_filters - 1)
            br == range(Size(m) - num_filters, Size(m) - 1)
            ts == <<Tensor(ls, p, 0, trans(rowm(m, wr))), Tensor(ls, p, 1, trans(rowm(m, br)))>>
        IN  IF ValidRows(m, wr) /\ ValidRows(m, br) THEN Written(ts) ELSE ReadOutOfRange(ts)
    ELSE IF l.detail_name = "fc" THEN
        LET wr == range(0, NR(m) - 2)
            br == <<NR(m) - 1>>
            ts == <<Tensor(ls, p, 0, trans(rowm(m, wr))), Tensor(ls, p, 1, rowm(m, br))>>
        IN  IF ValidRows(m, wr) /\ ValidRows(m, br) THEN Written(ts) ELSE ReadOutOfRange(ts)
    ELSE IF l.detail_name = "fc_no_bias" THEN
        Written(<<Tensor(ls, p, 0, trans(m))>>)
    ELSE IF l.detail_name = "affine_con" \/ l.detail_name = "affine_fc" THEN
        LET dims == Size(m) \div 2
            gr == range(0, dims - 1)
            br == range(dims, 2 * dims - 1)
            ts == <<Tensor(ls, p, 0, trans(rowm(m, gr))), Tensor(ls, p, 1, trans(rowm(m, br)))>>
        IN  IF ValidRows(m, gr) /\ ValidRows(m, br) THEN Written(ts) ELSE ReadOutOfRange(ts)
    ELSE Written(<<>>)

\* what a build can do with a read out of range: a build with dlib's
\* assertions on throws dlib::fatal_error, one without writes what it read.
\* The message of that error is composed inside dlib (file, line and failing
\* expression of the assertion); AssertionError stands for it.
AssertionError == "Error detected by DLIB_ASSERT: rowm() row index out of range."

RelayoutOutcomes(r) == IF r.undef THEN {"assert", "garbage"} ELSE {"written"}

----------------------------------------------------------------------------
(* class doc_handler.  Each callback is an operator from the handler       *)
(* object (and the event's arguments) to the handler object after the      *)
(* call; a thrown dlib::error is recorded in the field err.                *)

NewHandler ==
    [layers |-> <<>>, seen_first_tag |-> FALSE, next_layer |-> layer,
     current_tag |-> <<>>, tag_id |-> -1, err |-> ""]

Throw(h, msg) == [h EXCEPT !.err = msg]

start_document(h) ==
    [h EXCEPT !.layers = <<>>, !.seen_first_tag = FALSE, !.tag_id = -1]

end_document(h) == h

\* StartLayer with the pending tag id left set after a layer took it
StartLayer_KeepPending(h, atts) ==
    LET h1 == [h EXCEPT !.next_layer = layer] IN
    IF atts.type = "skip" THEN
        IF Len(h1.layers) = 0
        THEN Throw(h1, "A skip layer was found as the first layer, but the first layer should be an input layer.")
        ELSE [h1 EXCEPT !.layers[Len(h1.layers)].skip_id = atts.id]
    ELSE IF atts.type = "tag" THEN
        [h1 EXCEPT !.tag_id = atts.id]
    ELSE
        LET h2 == [h1 EXCEPT !.next_layer.idx = atts.idx,
                             !.next_layer.type = atts.type]
        IN  IF h2.tag_id # -1
            THEN [h2 EXCEPT !.next_layer.tag_id = h2.tag_id]
            ELSE h2

\* the body of `if (name == "layer")`
StartLayer(h, atts) ==
    LET h1 == [h EXCEPT !.next_layer = layer] IN
    IF atts.type = "skip" THEN
        IF Len(h1.layers) = 0
        THEN Throw(h1, "A skip layer was found as the first layer, but the first layer should be an input layer.")
        ELSE [h1 EXCEPT !.layers[Len(h1.layers)].skip_id = atts.id]
    ELSE IF atts.type = "tag" THEN
        [h1 EXCEPT !.tag_id = atts.id]
    ELSE
        LET h2 == [h1 EXCEPT !.next_layer.idx = atts.idx,
                             !.next_layer.type = atts.type]
        IN  IF h2.tag_id # -1
            THEN [h2 EXCEPT !.next_layer.tag_id = h2.tag_id, !.tag_id = -1]
            ELSE h2

\* the body of `else if (current_tag.top() == "layer")`
StartDetail(h, name, atts) ==
    [h EXCEPT !.next_layer.detail_name = name,
              !.next_layer.attributes =
                  [k \in (DOMAIN h.next_layer.attributes) \cup (DOMAIN atts) |->
                      IF k \in DOMAIN atts THEN atts[k]
                      ELSE h.next_layer.attributes[k]]]

start_element(h, name, atts) ==
    IF ~h.seen_first_tag /\ name # "net"
    THEN Throw(h, "The top level XML tag must be a 'net' tag.")
    ELSE
        LET h0 == [h EXCEPT !.seen_first_tag = TRUE]
            h1 == IF name = "layer" THEN StartLayer(h0, atts)
                  ELSE IF Len(h0.current_tag) # 0 /\ Last(h0.current_tag) = "layer"
                       THEN StartDetail(h0, name, atts)
                       ELSE h0
        IN  IF h1.err # "" THEN h1
            ELSE [h1 EXCEPT !.current_tag = Append(h1.current_tag, name)]

\* end_element appending next_layer at every closing layer element
end_element_AlwaysPush(h, name) ==
    LET h1 == [h EXCEPT !.current_tag = SubSeq(h.current_tag, 1, Len(h.current_tag) - 1)]
    IN  IF name = "layer"
        THEN [h1 EXCEPT !.layers = Append(h1.layers, h1.next_layer)]
        ELSE h1

end_element(h, name) ==
    LET h1 == [h EXCEPT !.current_tag = SubSeq(h.current_tag, 1, Len(h.current_tag) - 1)]
    IN  IF name = "layer" /\ h1.next_layer.type # ""
        THEN [h1 EXCEPT !.layers = Append(h1.layers, h1.next_layer)]
        ELSE h1

characters(h, data) ==
    IF Len(h.current_tag) = 0 THEN h
    ELSE IF Last(h.current_tag) \in comp_tags_with_params
         THEN [h EXCEPT !.next_layer.params = ReadMatrix(data)]
         ELSE h

\* ParseCheck without the check of the last record's type
ParseCheck_NoInputCheck(h) ==
    IF h.err # "" THEN h.err
    ELSE IF Len(h.layers) = 0 THEN "No layers found in XML file!"
    ELSE ""

\* the two checks parse_dlib_xml makes once the document is read
ParseCheck(h) ==
    IF h.err # "" THEN h.err
    ELSE IF Len(h.layers) = 0 THEN "No layers found in XML file!"
    ELSE IF Last(h.layers).type # "input"
         THEN "The network in the XML file is missing an input layer!"
    ELSE ""

----------------------------------------------------------------------------
(* Documents.  A document is its root element's name and the sequence of   *)
(* its layer elements; a layer element is its attribute list and at most   *)
(* one nested detail element, which may hold the text of a tensor.         *)

LayerAtts(type, id, idx) == [type |-> type, id |-> id, idx |-> idx]

Detail(name, atts, text) == [name |-> name, atts |-> atts, text |-> text]

Elem(atts, detail) == [atts |-> atts, detail |-> detail]

IsMarker(e) == e.atts.type \in {"tag", "skip"}

\* the genuine (non-tag, non-skip) layer elements of a sequence of elements
GenuineCount(elems) == Cardinality({j \in 1..Len(elems) : ~IsMarker(elems[j])})

\* the events the XML parser delivers for one layer element
ElemEvents(h, e) ==
    LET h1 == start_element(h, "layer", e.atts) IN
    IF h1.err # "" THEN h1
    ELSE IF e.detail = <<>> THEN end_element(h1, "layer")
    ELSE
        LET d  == e.detail[1]
            h2 == start_element(h1, d.name, d.atts)
            h3 == IF d.text = <<>> THEN h2 ELSE characters(h2, d.text[1])
        IN  end_element(end_element(h3, d.name), "layer")

RECURSIVE ElemsEvents(_, _)
ElemsEvents(h, elems) ==
    IF elems = <<>> \/ h.err # "" THEN h
    ELSE ElemsEvents(ElemEvents(h, Head(elems)), Tail(elems))

\* parse_xml(xml_filename, dh) on a document: the events in document order
parse_xml(h, root, elems) ==
    LET h1 == start_element(start_document(h), root, NoAtts) IN
    IF h1.err # "" THEN h1
    ELSE LET h2 == ElemsEvents(h1, elems) IN
         IF h2.err # "" THEN h2 ELSE end_document(end_element(h2, root))

----------------------------------------------------------------------------
(* The documents delivered event by event: markers with the ids of TagIds, *)
(* and genuine layers of the three kinds.                                  *)

RootNames == {"net", "network"}

ParseMarkerAtts(idx) ==
    {LayerAtts(t, id, idx) : t \in {"tag", "skip"}, id \in TagIds}

ParseGenuineAtts(idx) ==
    {LayerAtts(t, 0, idx) : t \in {"comp", "loss", "input"}}

\* the detail elements a layer of the given kind may hold
ParseDetails(type) ==
    IF type = "comp"
    THEN {Detail("relu", NoAtts, <<>>),
          Detail("fc", [num_outputs |-> 2], <<MatText(2, 2)>>)}
    ELSE IF type = "loss"
    THEN {Detail("loss_multiclass_log", NoAtts, <<>>)}
    ELSE {Detail("input_rgb_image", NoAtts, <<>>)}

Depth == Len(dh.current_tag)

XmlStartDocument ==
    /\ pc = "xml_begin"
    /\ dh' = start_document(dh)
    /\ pc' = "xml"
    /\ UNCHANGED <<argc, argi, doc, layers, rit, fout, disk, cout, status, err, calls>>

\* dh after an event, or the exception the event threw
Deliver(h) ==
    /\ dh' = h
    /\ IF h.err # "" THEN pc' = "xml_throw" /\ err' = h.err
       ELSE UNCHANGED <<pc, err>>

XmlStartRoot ==
    /\ pc = "xml" /\ Depth = 0 /\ ~dh.seen_first_tag
    /\ \E name \in RootNames : Deliver(start_element(dh, name, NoAtts))
    /\ UNCHANGED <<argc, argi, doc, layers, rit, fout, disk, cout, status, calls>>

XmlStartLayer ==
    /\ pc = "xml" /\ Depth = 1 /\ Len(doc) < MaxParseElems
    /\ \E atts \in ParseMarkerAtts(Len(doc)) \cup ParseGenuineAtts(Len(doc)) :
          /\ Deliver(start_element(dh, "layer", atts))
          /\ doc' = Append(doc, Elem(atts, <<>>))
    /\ UNCHANGED <<argc, argi, layers, rit, fout, disk, cout, status, calls>>

XmlStartDetail ==
    /\ pc = "xml" /\ Depth = 2
    /\ ~IsMarker(Last(doc)) /\ Last(doc).detail = <<>>
    /\ \E d \in ParseDetails(Last(doc).atts.type) :
          /\ dh' = start_element(dh, d.name, d.atts)
          /\ doc' = [doc EXCEPT ![Len(doc)].detail = <<d>>]
          /\ pc' = IF d.text = <<>> THEN "xml" ELSE "xml_text"
    /\ UNCHANGED <<argc, argi, layers, rit, fout, disk, cout, status, err, calls>>

XmlCharacters ==
    /\ pc = "xml_text"
    /\ dh' = characters(dh, Last(doc).detail[1].text[1])
    /\ pc' = "xml"
    /\ UNCHANGED <<argc, argi, doc, layers, rit, fout, disk, cout, status, err, calls>>

XmlEndElement ==
    /\ pc = "xml" /\ Depth > 0
    /\ dh' = end_element(dh, Last(dh.current_tag))
    /\ UNCHANGED <<pc, argc, argi, doc, layers, rit, fout, disk, cout, status, err, calls>>

XmlEndDocument ==
    /\ pc = "xml" /\ Depth = 0 /\ dh.seen_first_tag
    /\ dh' = end_document(dh)
    /\ pc' = "xml_end"
    /\ UNCHANGED <<argc, argi, doc, layers, rit, fout, disk, cout, status, err, calls>>

\* parse_dlib_xml after parse_xml returned: the two checks and the return
ParseReturn ==
    /\ pc = "xml_end"
    /\ IF ParseCheck(dh) # ""
       THEN pc' = "xml_throw" /\ err' = ParseCheck(dh) /\ UNCHANGED layers
       ELSE pc' = "xml_returned" /\ layers' = dh.layers /\ UNCHANGED err
    /\ UNCHANGED <<argc, argi, dh, doc, rit, fout, disk, cout, status, calls>>

InitParse ==
    /\ pc = "xml_begin"
    /\ argc = 2 /\ argi = 1
    /\ dh = NewHandler
    /\ doc = <<>>
    /\ layers = <<>>
    /\ rit = 0
    /\ fout = NoFile
    /\ disk = <<>>
    /\ cout = <<>>
    /\ status = -1
    /\ err = ""
    /\ calls = <<>>

NextParse ==
    \/ XmlStartDocument
    \/ XmlStartRoot
    \/ XmlStartLayer
    \/ XmlStartDetail
    \/ XmlCharacters
    \/ XmlEndElement
    \/ XmlEndDocument
    \/ ParseReturn

SpecParse == InitParse /\ [][NextParse]_vars

----------------------------------------------------------------------------
(* The program: main converts each file argument in turn.  The document    *)
(* a file holds is chosen when it is parsed, among every document of up    *)
(* to MaxElems layer elements over ConvMenu and the scenario documents.    *)

Marker(type, id) == Elem(LayerAtts(type, id, 0), <<>>)

Genuine(type, name, atts, text) == Elem(LayerAtts(type, 0, 0), <<Detail(name, atts, text)>>)

ConvAtts(num_filters, n, stride, pad) ==
    [num_filters |-> num_filters, nc |-> n, nr |-> n, stride_x |-> stride,
     stride_y |-> stride, padding_x |-> pad, padding_y |-> pad]

PoolAtts(n, pad_x, pad_y) ==
    [nc |-> n, nr |-> n, stride_x |-> 2, stride_y |-> 2,
     padding_x |-> pad_x, padding_y |-> pad_y]

ConvMenu ==
    {Marker(t, id) : t \in {"tag", "skip"}, id \in TagIds}
    \cup {Genuine("loss", "loss_multiclass_log", NoAtts, <<>>),
          Genuine("input", "input_rgb_image", NoAtts, <<>>),
          Genuine("input", "input_rgb_image_sized", [nr |-> 32, nc |-> 32], <<>>),
          Genuine("input", "input", NoAtts, <<>>),
          Genuine("input", "input_grayscale_image_pyramid", NoAtts, <<>>),
          Genuine("comp", "con", ConvAtts(1, 1, 1, 0), <<MatText(4, 1)>>),
          Genuine("comp", "relu", NoAtts, <<>>),
          Genuine("comp", "max_pool", PoolAtts(3, 0, 0), <<>>),
          Genuine("comp", "max_pool", PoolAtts(3, 0, 1), <<>>),
          Genuine("comp", "avg_pool", PoolAtts(0, 0, 0), <<>>),
          Genuine("comp", "avg_pool", PoolAtts(3, 1, 0), <<>>),
          Genuine("comp", "fc", [num_outputs |-> 2], <<MatText(2, 2)>>),
          Genuine("comp", "fc_no_bias", [num_outputs |-> 2], <<MatText(1, 2)>>),
          Genuine("comp", "bn_con", NoAtts, <<>>),
          Genuine("comp", "bn_fc", NoAtts, <<>>),
          Genuine("comp", "affine_con", NoAtts, <<MatText(4, 1)>>),
          Genuine("comp", "affine_fc", NoAtts, <<MatText(2, 1)>>),
          Genuine("comp", "add_prev", [tag |-> 1], <<>>),
          Genuine("comp", "prelu", [initial_param_value |-> 0], <<MatText(1, 1)>>)}

\* the elements f with their positions in the document as idx
Numbered(f) == [j \in 1..Len(f) |-> [f[j] EXCEPT !.atts.idx = j - 1]]

\* [loss, fc_no_bias(out=10), relu, con(6 filters, 5x5, stride 1, pad 0), input_rgb_image]
ChainDoc ==
    Numbered(<<Genuine("loss", "loss_multiclass_log", NoAtts, <<>>),
               Genuine("comp", "fc_no_bias", [num_outputs |-> 10], <<MatText(2, 10)>>),
               Genuine("comp", "relu", NoAtts, <<>>),
               Genuine("comp", "con", ConvAtts(6, 5, 1, 0), <<MatText(456, 1)>>),
               Genuine("input", "input_rgb_image", NoAtts, <<>>)>>)

\* a residual block: add_prev1 over con over tag1 over relu over the input
ResidualDoc(tag) ==
    Numbered(<<Genuine("loss", "loss_multiclass_log", NoAtts, <<>>),
               Genuine("comp", "add_prev", [tag |-> tag], <<>>),
               Genuine("comp", "con", ConvAtts(1, 1, 1, 0), <<MatText(4, 1)>>),
               Marker("tag", 1),
               Genuine("comp", "relu", NoAtts, <<>>),
               Genuine("input", "input_rgb_image", NoAtts, <<>>)>>)

ScenarioDocs == {ChainDoc, ResidualDoc(1), ResidualDoc(2)}

\* argv[k], as its pieces between the periods
argv(k) == <<"net" \o ToString(k), "xml">>

\* left_substr(xml_filename, ".") + "_dlib_to_caffe_model.py"
out_filename(xml_filename) == xml_filename[1] \o "_dlib_to_caffe_model.py"

UsageText ==
    <<"Give this program an xml file generated by dlib::net_to_xml() and it will",
      "convert it into a python file that outputs a caffe model containing the dlib model.">>

ErrorBanner == "*************** ERROR CONVERTING TO CAFFE ***************"

\* lines 365-370
main_usage ==
    /\ pc = "main" /\ argc = 1
    /\ cout' = cout \o UsageText
    /\ status' = 0
    /\ pc' = "exit"
    /\ UNCHANGED <<argc, argi, dh, doc, layers, rit, fout, disk, err, calls>>

\* line 372: the loop's initialisation
main_enter ==
    /\ pc = "main" /\ argc # 1
    /\ argi' = 1
    /\ pc' = "loop"
    /\ UNCHANGED <<argc, dh, doc, layers, rit, fout, disk, cout, status, err, calls>>

\* lines 372-375: the loop's test, and the return after the loop
main_loop ==
    /\ pc = "loop"
    /\ IF argi < argc
       THEN pc' = "convert" /\ UNCHANGED status
       ELSE pc' = "exit" /\ status' = 0
    /\ UNCHANGED <<argc, argi, dh, doc, layers, rit, fout, disk, cout, err, calls>>

\* lines 111-114
convert_open ==
    /\ pc = "convert"
    /\ cout' = Append(cout, "Writing model to " \o out_filename(argv(argi)))
    /\ fout' = [NoFile EXCEPT !.open = TRUE]
    /\ pc' = "parse"
    /\ UNCHANGED <<argc, argi, dh, doc, layers, rit, disk, status, err, calls>>

\* line 115 for the document (root, elems)
ParseDocument(root, elems) ==
    LET h == parse_xml(NewHandler, root, elems) IN
    IF ParseCheck(h) # ""
    THEN pc' = "catch" /\ err' = ParseCheck(h) /\ UNCHANGED <<layers, rit>>
    ELSE pc' = "header" /\ layers' = h.layers /\ rit' = 0 /\ UNCHANGED err

\* line 115: parse_dlib_xml(xml_filename), the file holding any document of
\* up to maxElems layer elements or a scenario document
ConvertParse(maxElems) ==
    /\ pc = "parse"
    /\ \/ \E n \in 0..maxElems : \E f \in [1..n -> ConvMenu] : ParseDocument("net", Numbered(f))
       \/ \E elems \in ScenarioDocs : ParseDocument("net", elems)
       \/ ParseDocument("network", <<>>)
    /\ UNCHANGED <<argc, argi, dh, doc, fout, disk, cout, status, calls>>

convert_parse == ConvertParse(MaxElems)

\* the same call on the short documents only
convert_parse_short == ConvertParse(1)

\* lines 117-152
convert_header ==
    /\ pc = "header"
    /\ LET dims == InputDims(layers) IN
       IF dims.err # ""
       THEN /\ fout' = [fout EXCEPT !.head = Preamble \o dims.lines]
            /\ pc' = "catch" /\ err' = dims.err /\ UNCHANGED rit
       ELSE /\ fout' = [fout EXCEPT !.head = Preamble \o dims.lines \o NetspecOpening]
            /\ pc' = "decls" /\ rit' = Len(layers) /\ UNCHANGED err
    /\ UNCHANGED <<argc, argi, dh, doc, layers, disk, cout, status, calls>>

\* lines 154-272: one iteration of the loop
decl_step ==
    /\ pc = "decls" /\ rit >= 1
    /\ LET r == Declare(layers, rit) IN
       /\ calls' = r.calls
       /\ IF r.undef THEN pc' = "undefined" /\ UNCHANGED <<fout, rit, err>>
          ELSE IF r.err # "" THEN pc' = "catch" /\ err' = r.err /\ UNCHANGED <<fout, rit>>
          ELSE /\ fout' = [fout EXCEPT !.decls = @ \o r.decl]
               /\ rit' = rit - 1
               /\ UNCHANGED <<pc, err>>
    /\ UNCHANGED <<argc, argi, dh, doc, layers, disk, cout, status>>

\* lines 273-294: the loop is over, the text between the two loops
decl_end ==
    /\ pc = "decls" /\ rit = 0
    /\ fout' = [fout EXCEPT !.tail = NetspecClosing]
    /\ pc' = "weights"
    /\ rit' = Len(layers)
    /\ calls' = <<>>
    /\ UNCHANGED <<argc, argi, dh, doc, layers, disk, cout, status, err>>

\* lines 294-357: one iteration of the loop
weights_step ==
    /\ pc = "weights" /\ rit >= 1
    /\ LET r == Relayout(layers, rit) IN
       \E o \in RelayoutOutcomes(r) :
          IF o = "assert"
          THEN pc' = "catch" /\ err' = AssertionError /\ UNCHANGED <<fout, rit>>
          ELSE /\ fout' = [fout EXCEPT !.weights = @ \o r.tensors]
               /\ rit' = rit - 1
               /\ UNCHANGED <<pc, err>>
    /\ UNCHANGED <<argc, argi, dh, doc, layers, disk, cout, status, calls>>

\* the output is complete: both loops are over and convert is about to return
Completed == pc = "weights" /\ rit = 0

\* line 359 and the ++i of line 372: convert returns, its locals are destroyed
convert_return ==
    /\ Completed
    /\ disk' = Append(disk, [name |-> out_filename(argv(argi)), complete |-> TRUE])
    /\ fout' = NoFile
    /\ layers' = <<>>
    /\ argi' = argi + 1
    /\ pc' = "loop"
    /\ UNCHANGED <<argc, dh, doc, rit, cout, status, err, calls>>

\* the exception caught inside the loop, which goes on with the next file
main_catch_Continue ==
    /\ pc = "catch"
    /\ disk' = IF fout.open
               THEN Append(disk, [name |-> out_filename(argv(argi)), complete |-> FALSE])
               ELSE disk
    /\ fout' = NoFile
    /\ layers' = <<>>
    /\ cout' = cout \o <<ErrorBanner, err>>
    /\ argi' = argi + 1
    /\ pc' = "loop"
    /\ UNCHANGED <<argc, dh, doc, rit, status, err, calls>>

\* lines 377-381: the exception unwinds convert (closing fout) and is caught
main_catch ==
    /\ pc = "catch"
    /\ disk' = IF fout.open
               THEN Append(disk, [name |-> out_filename(argv(argi)), complete |-> FALSE])
               ELSE disk
    /\ fout' = NoFile
    /\ layers' = <<>>
    /\ cout' = cout \o <<ErrorBanner, err>>
    /\ status' = 1
    /\ pc' = "exit"
    /\ UNCHANGED <<argc, argi, dh, doc, rit, err, calls>>

\* the state main starts in, given argc
Start(n) ==
    /\ pc = "main"
    /\ argc = n
    /\ argi = 0
    /\ dh = NewHandler
    /\ doc = <<>>
    /\ layers = <<>>
    /\ rit = 0
    /\ fout = NoFile
    /\ disk = <<>>
    /\ cout = <<>>
    /\ status = -1
    /\ err = ""
    /\ calls = <<>>

\* the program run with no file argument or with one
Init == \E n \in 1..2 : Start(n)

Next ==
    \/ main_usage
    \/ main_enter
    \/ main_loop
    \/ convert_open
    \/ convert_parse
    \/ convert_header
    \/ decl_step
    \/ decl_end
    \/ weights_step
    \/ convert_return
    \/ main_catch

Spec == Init /\ [][Next]_vars

\* the program run with up to MaxFiles file arguments, each a short document
InitMain == \E n \in 1..(MaxFiles + 1) : Start(n)

NextMain ==
    \/ main_usage
    \/ main_enter
    \/ main_loop
    \/ convert_open
    \/ convert_parse_short
    \/ convert_header
    \/ decl_step
    \/ decl_end
    \/ weights_step
    \/ convert_return
    \/ main_catch

SpecMain == InitMain /\ [][NextMain]_vars

----------------------------------------------------------------------------
(* What a document says, read off the document itself.                     *)

\* the positions of the genuine layer elements, in document order
GenuinePositions(elems) ==
    LET IsGenuine(q) == ~IsMarker(elems[q])
    IN  SelectSeq([q \in 1..Len(elems) |-> q], IsGenuine)

\* the id of the last tag marker between the previous genuine layer and
\* the genuine layer at position q, -1 when there is none
TagBefore(elems, q) ==
    LET S == {p \in 1..(q - 1) : /\ elems[p].atts.type = "tag"
                                 /\ \A r \in (p + 1)..(q - 1) : IsMarker(elems[r])}
    IN  IF S = {} THEN -1 ELSE elems[SetMax(S)].atts.id

\* the id of the last skip marker between the genuine layer at position q
\* and the next genuine layer, -1 when there is none
SkipAfter(elems, q) ==
    LET S == {p \in (q + 1)..Len(elems) : /\ elems[p].atts.type = "skip"
                                          /\ \A r \in (q + 1)..(p - 1) : IsMarker(elems[r])}
    IN  IF S = {} THEN -1 ELSE elems[SetMax(S)].atts.id

\* a skip marker that no genuine layer element precedes
SkipFirst(elems) ==
    \E p \in 1..Len(elems) : /\ elems[p].atts.type = "skip"
                             /\ \A r \in 1..(p - 1) : IsMarker(elems[r])

InputPositions(ls) == {j \in 1..Len(ls) : ls[j].type = "input"}

----------------------------------------------------------------------------
(* Claims about the Graph Builder, checked under SpecParse.                *)

\* C1: for every well-formed document parse_dlib_xml accepts, the returned
\* list has one record per genuine layer element, in document order, its
\* last record has kind input, and markers never add a record (the handler's
\* list holds exactly the genuine layers closed so far).
C1_OneRecordPerGenuineLayer ==
    /\ (pc \in {"xml", "xml_end"} /\ Depth <= 1) =>
           Len(dh.layers) = GenuineCount(doc)
    /\ pc = "xml_returned" =>
           LET g == GenuinePositions(doc) IN
           /\ Len(layers) = GenuineCount(doc)
           /\ \A j \in 1..Len(layers) :
                 /\ layers[j].idx = doc[g[j]].atts.idx
                 /\ layers[j].type = doc[g[j]].atts.type
                 /\ doc[g[j]].detail # <<>> =>
                        layers[j].detail_name = doc[g[j]].detail[1].name
           /\ Last(layers).type = "input"

\* C1 witness: an accepted document with markers and several genuine layers
C1_Witness ==
    /\ pc = "xml_returned"
    /\ Len(layers) >= 2
    /\ \E p, q \in 1..Len(doc) : doc[p].atts.type = "tag" /\ doc[q].atts.type = "skip"

\* C2 as stated: every returned list has exactly one input record, the last
C2_ExactlyOneInput ==
    pc = "xml_returned" => InputPositions(layers) = {Len(layers)}

\* C2 amended: every returned list is non-empty and its last record has kind
\* input; there is one input record per genuine input element of the
\* document, so at least one and possibly several.
C2_LastIsInput ==
    pc = "xml_returned" =>
        /\ Len(layers) >= 1
        /\ Last(layers).type = "input"
        /\ Cardinality(InputPositions(layers)) =
               Cardinality({q \in 1..Len(doc) : doc[q].atts.type = "input"})

\* C2 witness: a returned list with an input record before the last one
C2_Witness ==
    /\ pc = "xml_returned"
    /\ \E j \in 1..(Len(layers) - 1) : layers[j].type = "input"
    /\ \E j \in 1..Len(layers) : layers[j].type = "comp"

\* C10: while no error was raised, every completed record carries as tag_id
\* the pending tag id at the time it was opened (the id of the last tag marker
\* since the previous genuine layer, whatever skip markers lie in between,
\* -1 when there is none) and as skip_id the id of the last skip marker that
\* followed it (-1 when there is none); the pending id is cleared by the
\* layer that takes it; markers leave the list length and the other records
\* alone; and a skip marker before any completed record raises the fatal
\* error.
C10_MarkersAttach ==
    LET g == GenuinePositions(doc) IN
    /\ pc \in {"xml", "xml_text", "xml_end", "xml_returned"} =>
          /\ ~SkipFirst(doc)
          /\ Len(dh.layers) <= Len(g)
          /\ \A j \in 1..Len(dh.layers) :
                /\ dh.layers[j].tag_id = TagBefore(doc, g[j])
                /\ dh.layers[j].skip_id = SkipAfter(doc, g[j])
                /\ dh.layers[j].idx = doc[g[j]].atts.idx
          /\ Len(dh.layers) < Len(g) =>
                /\ dh.next_layer.tag_id = TagBefore(doc, Last(g))
                /\ dh.tag_id = -1
          /\ (Depth = 1 /\ Len(dh.layers) = Len(g)) =>
                dh.tag_id = TagBefore(doc, Len(doc) + 1)
    /\ SkipFirst(doc) =>
          /\ pc = "xml_throw"
          /\ err = "A skip layer was found as the first layer, but the first layer should be an input layer."

\* C10 witness: a tag marker, then a skip marker, then the layer that takes
\* the tag, with the skip applied to the record completed before
C10_Witness ==
    /\ pc = "xml" /\ Depth = 1
    /\ Len(doc) = 4 /\ Len(dh.layers) = 2
    /\ doc[2].atts.type = "tag" /\ doc[3].atts.type = "skip"
    /\ dh.layers[1].skip_id = doc[3].atts.id
    /\ dh.layers[2].tag_id = doc[2].atts.id
    /\ dh.layers[1].tag_id = -1 /\ dh.layers[2].skip_id = -1

\* C10 second witness: the skip marker met first
C10_SkipFirstWitness == SkipFirst(doc) /\ pc = "xml_throw"

----------------------------------------------------------------------------
(* The resolver on layer lists given directly: every list of 2..MaxList    *)
(* records that parse_dlib_xml can return (the last record an input        *)
(* record), over the records below.                                        *)

Rec(type, detail_name, atts, tag_id, skip_id) ==
    [layer EXCEPT !.type = type, !.detail_name = detail_name, !.attributes = atts,
                  !.tag_id = tag_id, !.skip_id = skip_id]

ResolveInterior ==
    {Rec("comp", "relu", NoAtts, t, s) : t \in {-1} \cup TagIds, s \in {-1} \cup TagIds}
    \cup {Rec("comp", "add_prev", [tag |-> 1], t, -1) : t \in {-1} \cup TagIds}
    \cup {Rec("comp", "add_prev", [tag |-> 2], t, 1) : t \in {-1} \cup TagIds}
    \cup {Rec("input", "input", NoAtts, t, -1) : t \in {-1, 1}}

ResolveLast == {Rec("input", "input_rgb_image", NoAtts, t, -1) : t \in {-1, 1}}

\* the list of n records made of the interior records f and the last record l,
\* each with its position in the document as idx
ResolveList(n, f, l) ==
    [j \in 1..n |-> IF j = n THEN [l EXCEPT !.idx = j - 1]
                              ELSE [f[j] EXCEPT !.idx = j - 1]]

\* find_input_layer_caffe_name(i) for a record that is not an input record
ResolveInput ==
    /\ pc = "resolve"
    /\ \E p \in 1..Len(layers) :
          /\ layers[p].type # "input"
          /\ calls' = <<Call(p, layers[p].skip_id, find_input_layer_caffe_name(layers, p))>>
    /\ pc' = "resolved"
    /\ UNCHANGED <<argc, argi, dh, doc, layers, rit, fout, disk, cout, status, err>>

\* find_layer_caffe_name(i, i->attribute("tag")) for an add_prev record
ResolveSecond ==
    /\ pc = "resolve"
    /\ \E p \in 1..Len(layers) :
          /\ layers[p].type # "input"
          /\ layers[p].detail_name = "add_prev"
          /\ HasAttribute(layers[p], "tag")
          /\ calls' = <<Call(p, attribute(layers[p], "tag"),
                             find_layer_caffe_name(layers, p, attribute(layers[p], "tag")))>>
    /\ pc' = "resolved"
    /\ UNCHANGED <<argc, argi, dh, doc, layers, rit, fout, disk, cout, status, err>>

InitResolve ==
    /\ pc = "resolve"
    /\ argc = 2 /\ argi = 1
    /\ dh = NewHandler
    /\ doc = <<>>
    /\ \E n \in 2..MaxList :
          \E f \in [1..(n - 1) -> ResolveInterior], l \in ResolveLast :
              layers = ResolveList(n, f, l)
    /\ rit = 0
    /\ fout = NoFile
    /\ disk = <<>>
    /\ cout = <<>>
    /\ status = -1
    /\ err = ""
    /\ calls = <<>>

NextResolve == ResolveInput \/ ResolveSecond

SpecResolve == InitResolve /\ [][NextResolve]_vars

\* the records a scan from position p meets: those after p, up to and
\* including the first input record
ScanRange(ls, p) ==
    {q \in (p + 1)..Len(ls) : \A r \in (p + 1)..(q - 1) : ls[r].type # "input"}

\* C3 as stated: without a skip_id the resolver returns the name of the
\* record at stored position i-1
C3_PredecessorAtIMinus1 ==
    \A c \in 1..Len(calls) :
        calls[c].tag = -1 =>
            /\ calls[c].pos - 1 >= 1
            /\ calls[c].res.name = caffe_layer_name(layers[calls[c].pos - 1])

\* C3 amended: for a record at stored position i that is not an input record
\* and has no skip_id, the resolver returns the generated name of the record
\* at stored position i+1 (the next record of the list, one step closer to
\* the input layer): the loop's iterators are reverse iterators.
C3_PredecessorAtIPlus1 ==
    \A c \in 1..Len(calls) :
        calls[c].tag = -1 =>
            /\ ~calls[c].res.undef /\ calls[c].res.err = ""
            /\ calls[c].res.pos = calls[c].pos + 1
            /\ calls[c].res.name = caffe_layer_name(layers[calls[c].pos + 1])

\* C3 witness: an untagged resolution from the middle of a list whose two
\* neighbours have different names
C3_Witness ==
    /\ pc = "resolved"
    /\ calls[1].tag = -1 /\ calls[1].pos = 2 /\ Len(layers) = 4
    /\ calls[1].res.name = "relu2"
    /\ caffe_layer_name(layers[1]) = "add_prev0"

\* C4: for a non-input record r and a tag t other than -1, both resolvers
\* return the name of the nearest record after r, up to and including the
\* first input record the scan meets, whose tag_id is t, and raise the
\* skip error when no record in that range has it.
C4_NearestTagged ==
    \A c \in 1..Len(calls) :
        calls[c].tag # -1 =>
            LET S == {q \in ScanRange(layers, calls[c].pos) :
                         layers[q].tag_id = calls[c].tag}
            IN  /\ ~calls[c].res.undef
                /\ S # {} => /\ calls[c].res.err = ""
                             /\ calls[c].res.pos = SetMin(S)
                             /\ calls[c].res.name = caffe_layer_name(layers[SetMin(S)])
                /\ S = {} => calls[c].res.err = SkipError

\* C4 witness: two records carry the tag and the nearer one is returned,
\* through the second-input resolver
C4_Witness ==
    /\ pc = "resolved"
    /\ Len(layers) = 4
    /\ calls[1].pos = 1 /\ calls[1].tag = 1 /\ layers[1].skip_id # 1
    /\ layers[2].tag_id = 2 /\ layers[3].tag_id = 1 /\ layers[4].tag_id = 1
    /\ calls[1].res.pos = 3

\* C4 second witness: the only record carrying the tag is the input record
C4_TaggedInputWitness ==
    /\ pc = "resolved"
    /\ calls[1].tag = 1 /\ calls[1].res.name = "data"
    /\ calls[1].res.pos = Len(layers)

\* C4 third witness: the fatal error, on the primary resolver
C4_ErrorWitness ==
    /\ pc = "resolved"
    /\ calls[1].tag = layers[calls[1].pos].skip_id
    /\ calls[1].res.err = SkipError
    /\ \E q \in 1..Len(layers) : layers[q].tag_id # -1

----------------------------------------------------------------------------
(* The weights loop on one parameter-bearing layer given directly: the     *)
(* list [layer, input], the layer of each parameter-bearing kind with a    *)
(* tensor of 1..MaxRows rows and 1..MaxCols columns, at the point where    *)
(* the first loop has declared it.                                         *)

ParamLayers ==
    {Rec("comp", "con", ConvAtts(nf, 1, 1, 0), -1, -1) : nf \in 0..MaxRows}
    \cup {Rec("comp", "fc", [num_outputs |-> 2], -1, -1),
          Rec("comp", "fc_no_bias", [num_outputs |-> 2], -1, -1),
          Rec("comp", "affine_con", NoAtts, -1, -1),
          Rec("comp", "affine_fc", NoAtts, -1, -1)}

InitRelayout ==
    /\ pc = "weights"
    /\ argc = 2 /\ argi = 1
    /\ dh = NewHandler
    /\ doc = <<>>
    /\ \E l \in ParamLayers, nr \in 1..MaxRows, nc \in 1..MaxCols :
          layers = <<[l EXCEPT !.params = ReadMatrix(MatText(nr, nc))],
                     [Rec("input", "input_rgb_image", NoAtts, -1, -1) EXCEPT !.idx = 1]>>
    /\ rit = 2
    /\ fout = [open |-> TRUE,
               head |-> Preamble \o InputDims(layers).lines \o NetspecOpening,
               decls |-> Declare(layers, 1).decl,
               tail |-> NetspecClosing,
               weights |-> <<>>]
    /\ disk = <<>>
    /\ cout = <<"Writing model to " \o out_filename(argv(1))>>
    /\ status = -1
    /\ err = ""
    /\ calls = <<>>

NextRelayout ==
    \/ weights_step
    \/ convert_return
    \/ main_catch

SpecRelayout == InitRelayout /\ [][NextRelayout]_vars

RECURSIVE TotalElements(_)
TotalElements(ts) ==
    IF ts = <<>> THEN 0 ELSE Len(Head(ts).data) + TotalElements(Tail(ts))

IsAffine(l) == l.detail_name \in {"affine_con", "affine_fc"}

\* the tensors for which every row the relayout reads is a row of the tensor
SlicesInside(l) ==
    IF l.detail_name = "con"
    THEN NC(l.params) = 1 /\ 1 <= attribute(l, "num_filters")
         /\ attribute(l, "num_filters") <= Size(l.params) - 1
    ELSE IF l.detail_name = "fc" THEN NR(l.params) >= 2
    ELSE IF IsAffine(l) THEN NC(l.params) = 1 /\ Size(l.params) >= 2
    ELSE TRUE

----------------------------------------------------------------------------
(* Claims about the conversion, checked under Spec, SpecMain and           *)
(* SpecRelayout.                                                           *)

\* the declarations written before declaration k
EarlierNames(k) == {fout.decls[j].name : j \in 1..(k - 1)}

\* C5 as stated: when a conversion completes, every input name a declaration
\* references is "data" or the name of a declaration written earlier
C5_ReferencesDeclaredEarlier ==
    Completed =>
        \A k \in 1..Len(fout.decls) :
            \A b \in 1..Len(fout.decls[k].bottoms) :
                \/ fout.decls[k].bottoms[b] = "data"
                \/ fout.decls[k].bottoms[b] \in EarlierNames(k)

\* C5 amended: the declarations are written in forward order (decreasing
\* stored position), one per translated layer once the conversion completes,
\* and every input name a declaration references is "data", or the name of
\* a declaration written strictly earlier, or the generated name of a loss
\* record stored after the referencing record, which has no declaration.
C5_ForwardOrder ==
    pc \in {"decls", "weights"} =>
        /\ \A j, k \in 1..Len(fout.decls) :
               j < k => fout.decls[j].pos > fout.decls[k].pos
        /\ \A k \in 1..Len(fout.decls) :
               /\ fout.decls[k].pos > rit \/ pc = "weights"
               /\ layers[fout.decls[k].pos].type \notin {"loss", "input"}
               /\ fout.decls[k].name = caffe_layer_name(layers[fout.decls[k].pos])
               /\ \A b \in 1..Len(fout.decls[k].bottoms) :
                     \/ fout.decls[k].bottoms[b] = "data"
                     \/ fout.decls[k].bottoms[b] \in EarlierNames(k)
                     \/ \E q \in (fout.decls[k].pos + 1)..Len(layers) :
                           /\ layers[q].type = "loss"
                           /\ fout.decls[k].bottoms[b] = caffe_layer_name(layers[q])
        /\ pc = "weights" =>
               {fout.decls[k].pos : k \in 1..Len(fout.decls)} =
                   {p \in 1..Len(layers) : layers[p].type \notin {"loss", "input"}}

\* C5 witness: the chain data -> Convolution -> ReLU -> InnerProduct(bias=False)
C5_Witness ==
    /\ Completed
    /\ Len(layers) = 5 /\ Len(fout.decls) = 3
    /\ fout.decls[1].kind = "Convolution" /\ fout.decls[1].bottoms = <<"data">>
    /\ fout.decls[1].args = <<"num_output=6", "kernel_w=5", "kernel_h=5", "stride_w=1",
                              "stride_h=1", "pad_w=0", "pad_h=0">>
    /\ fout.decls[2].kind = "ReLU" /\ fout.decls[2].bottoms = <<"con3">>
    /\ fout.decls[3].kind = "InnerProduct" /\ fout.decls[3].bottoms = <<"relu2">>
    /\ fout.decls[3].args = <<"num_output=10", "bias_term=False">>

\* C5 second witness: a residual block, whose Eltwise takes two earlier names
C5_ResidualWitness ==
    /\ Completed
    /\ \E k \in 1..Len(fout.decls) :
          fout.decls[k].kind = "Eltwise" /\ fout.decls[k].bottoms = <<"con2", "relu4">>

KnownInputs == {"input_rgb_image", "input_rgb_image_sized", "input"}

UnknownInput == layers # <<>> /\ Last(layers).detail_name \notin KnownInputs

\* C6 as stated: an unrecognised input layer ends in the fatal error and no
\* output file is written
C6_NoFileWritten ==
    (UnknownInput /\ pc = "catch") =>
        /\ err = NoKnownTransformation(Last(layers).detail_name)
        /\ ~fout.open

\* C6 amended: a document whose last record has an unrecognised detail type
\* ends in the "no known transformation" error before any layer is declared;
\* the output file has been created by then and holds the lines written
\* before the input check, and nothing else.
C6_UnknownInputFails ==
    UnknownInput =>
        /\ pc \in {"header", "catch"}
        /\ pc = "catch" =>
              /\ err = NoKnownTransformation(Last(layers).detail_name)
              /\ fout.open
              /\ fout.head = Preamble
              /\ fout.decls = <<>> /\ fout.tail = <<>> /\ fout.weights = <<>>

\* C6 witness: the error raised for a document with layers before the input
C6_Witness ==
    /\ UnknownInput /\ pc = "catch"
    /\ Len(layers) = 3
    /\ layers[1].type = "loss" /\ layers[2].detail_name = "relu"

\* the output file names of the first n file arguments, in argument order
OutNames(n) == [k \in 1..n |-> out_filename(argv(k))]

Announcements(n) == [k \in 1..n |-> "Writing model to " \o out_filename(argv(k))]

\* C7: when the conversion of file k is the first to fail, files 1..k-1 have
\* been converted in argument order, the banner and the message are printed,
\* no later file is touched and the exit status is 1; when none fails every
\* file is converted in order and the exit status is 0.
C7_FirstFailureStopsRun ==
    /\ pc # "exit" => status = -1
    /\ pc = "exit" =>
          \/ /\ status = 0 /\ argc = 1
             /\ cout = UsageText /\ disk = <<>>
          \/ /\ status = 0 /\ argc > 1
             /\ Len(disk) = argc - 1
             /\ \A k \in 1..Len(disk) : disk[k].complete /\ disk[k].name = OutNames(argc - 1)[k]
             /\ cout = Announcements(argc - 1)
          \/ /\ status = 1 /\ argi \in 1..(argc - 1)
             /\ Len(disk) = argi
             /\ \A k \in 1..(argi - 1) : disk[k].complete
             /\ \A k \in 1..argi : disk[k].name = OutNames(argi)[k]
             /\ ~disk[argi].complete
             /\ err # ""
             /\ cout = Announcements(argi) \o <<ErrorBanner, err>>

\* C7 witness: three files, the first converted, the second failing
C7_Witness ==
    /\ pc = "exit" /\ status = 1
    /\ argc = 4 /\ argi = 2
    /\ disk[1].complete

\* C7 second witness: three files, all converted
C7_AllConvertedWitness == pc = "exit" /\ status = 0 /\ argc = 4 /\ Len(disk) = 3

\* C8 as stated: the tensors written for a parameter-bearing layer hold as
\* many elements as its parameters tensor, whatever the tensor's size
C8_ElementCountPreserved ==
    (Completed /\ SlicesInside(layers[1])) =>
        TotalElements(fout.weights) = Size(layers[1].params)

\* C8 amended: when every row the relayout reads is a row of the tensor
\* (convolution: one column and 1 <= num_filters < size; fully-connected with
\* bias: at least two rows; affine: one column and at least two elements;
\* fully-connected without bias: any tensor), the relayout reads in range,
\* and the tensors written hold as many elements as the source tensor,
\* except that an affine tensor of odd size 2d+1 is written as 2d elements.
C8_ElementCountWhereDefined ==
    (pc = "weights" /\ Len(layers) = 2) =>
        /\ SlicesInside(layers[1]) <=> ~Relayout(layers, 1).undef
        /\ (Completed /\ SlicesInside(layers[1])) =>
              /\ \A k \in 1..Len(fout.weights) : fout.weights[k].pos = 1
              /\ TotalElements(fout.weights) =
                    IF IsAffine(layers[1]) THEN 2 * (Size(layers[1].params) \div 2)
                    ELSE Size(layers[1].params)

\* C8 witness: a convolution's tensor split into weights and biases
C8_Witness ==
    /\ Completed /\ Len(layers) = 2
    /\ layers[1].detail_name = "con" /\ attribute(layers[1], "num_filters") = 2
    /\ Len(fout.weights) = 2
    /\ fout.weights[1].data = <<1, 2, 3>> /\ fout.weights[2].data = <<4, 5>>

\* C8 second witness: an affine tensor of odd size loses its last element
C8_OddAffineWitness ==
    /\ Completed /\ Len(layers) = 2
    /\ IsAffine(layers[1]) /\ Size(layers[1].params) = 5
    /\ TotalElements(fout.weights) = 4

\* C8 third witness: a fully-connected tensor with bias, transposed
C8_FcWitness ==
    /\ Completed /\ Len(layers) = 2
    /\ layers[1].detail_name = "fc"
    /\ Len(fout.weights) = 2
    /\ fout.weights[1].data = <<1, 3, 2, 4>> /\ fout.weights[2].data = <<5, 6>>

Supported ==
    {"con", "relu", "max_pool", "avg_pool", "fc", "fc_no_bias",
     "affine_con", "affine_fc", "add_prev"}

NonZeroPadding(l) ==
    \/ HasAttribute(l, "padding_x") /\ attribute(l, "padding_x") # 0
    \/ HasAttribute(l, "padding_y") /\ attribute(l, "padding_y") # 0

\* a computational record the translator has no declaration for
NotTranslatable(l) ==
    /\ l.type = "comp"
    /\ \/ l.detail_name \notin Supported
       \/ l.detail_name \in {"bn_con", "bn_fc"}
       \/ l.detail_name \in {"max_pool", "avg_pool"} /\ NonZeroPadding(l)

\* C9: while some computational record is not translatable the conversion
\* never gets past that record (it is in the first loop at or before the
\* record, or has raised a fatal error), and when a conversion completes
\* every computational record has exactly one declaration and loss and
\* input records have none.
C9_NoLayerDropped ==
    /\ \A p \in 1..Len(layers) :
          NotTranslatable(layers[p]) =>
              /\ pc \in {"header", "decls", "catch"}
              /\ pc = "decls" => rit >= p
              /\ pc = "catch" => err # ""
    /\ Completed =>
          \A p \in 1..Len(layers) :
              Cardinality({k \in 1..Len(fout.decls) : fout.decls[k].pos = p}) =
                  IF layers[p].type = "comp" THEN 1 ELSE 0

\* C9 witness: a pooling layer with padding stops a conversion that had
\* already declared a layer
C9_Witness ==
    /\ pc = "catch" /\ err = PoolingError
    /\ Len(fout.decls) >= 1
    /\ \E p \in 1..Len(layers) : NotTranslatable(layers[p])

\* C9 second witness: a batch-norm layer stops the conversion
C9_BatchNormWitness == pc = "catch" /\ err = BatchNormError /\ layers # <<>>

\* C9 third witness: a completed conversion of a document with loss, input
\* and computational records
C9_CompletedWitness ==
    /\ Completed /\ Len(fout.decls) >= 1
    /\ \E p \in 1..Len(layers) : layers[p].type = "loss"

\* the positions a resolver call made at position p with tag t reads: p+1
\* alone when t = -1, else p+1 up to the record that stops the scan
PositionsRead(ls, p, t) ==
    IF t = -1 THEN {p + 1}
    ELSE LET stops == {q \in (p + 1)..Len(ls) :
                          ls[q].tag_id = t \/ ls[q].type = "input"}
         IN  IF stops = {} THEN (p + 1)..(Len(ls) + 1)
             ELSE (p + 1)..SetMin(stops)

\* C11: in a conversion of a list parse_dlib_xml accepted, every resolver
\* call made for a translated record (kind neither loss nor input) reads
\* only positions of the list: the position after the record exists, and a
\* tag scan stops with a match or the fatal error no later than at the last
\* record, which is an input record.
C11_ResolverStaysInList ==
    /\ pc # "undefined"
    /\ pc \in {"decls", "catch"} =>
          \A c \in 1..Len(calls) :
              LET p == calls[c].pos
                  t == calls[c].tag
                  res == calls[c].res
              IN  /\ p \in 1..(Len(layers) - 1)
                  /\ layers[p].type \notin {"loss", "input"}
                  /\ Last(layers).type = "input"
                  /\ ~res.undef
                  /\ PositionsRead(layers, p, t) \subseteq 1..Len(layers)
                  /\ res.err = "" =>
                        /\ res.pos = SetMax(PositionsRead(layers, p, t))
                        /\ t # -1 => layers[res.pos].tag_id = t
                  /\ res.err # "" =>
                        /\ res.err = SkipError /\ t # -1
                        /\ layers[SetMax(PositionsRead(layers, p, t))].type = "input"

\* C11 witness: a residual-add whose tag is nowhere in the list; the scan
\* runs to the last record and stops there with the fatal error
C11_Witness ==
    /\ pc = "catch" /\ err = SkipError
    /\ Len(calls) = 2
    /\ calls[2].tag = 2 /\ calls[2].res.err = SkipError
    /\ PositionsRead(layers, calls[2].pos, 2) = (calls[2].pos + 1)..Len(layers)
    /\ Len(layers) - calls[2].pos >= 3

\* C11 second witness: the record just before the input record resolves to
\* the last position of the list
C11_LastPositionWitness ==
    /\ pc = "decls" /\ Len(calls) = 1
    /\ calls[1].tag = -1
    /\ calls[1].pos = Len(layers) - 1 /\ calls[1].res.pos = Len(layers)
    /\ calls[1].res.name = "data"

====
